---- MODULE Spec2Model ----
(***************************************************************************)
(* A model of the blackjack rules engine of pyblackjack-v2: cards.py       *)
(* (Card, Deck, Hand) and has_hands.py (HasHands, Player, Dealer).         *)
(*                                                                         *)
(* The specifications share the variables:                                 *)
(*   Spec       a Player, its hands and purse, and the deck it draws from  *)
(*   SpecRound  a Player whose hands start empty and who acts on the       *)
(*              current hand only                                          *)
(*   SpecDealer a Dealer, its hand, and the deck it draws from             *)
(*   SpecDeck   a Deck on its own: Deck(n), Deck.pass_cards, Deck.draw     *)
(*   SpecScore  a Hand on its own: Hand.add_card, Hand.get_score           *)
(*                                                                         *)
(* A Python exception is modelled by the outcome recorded in last.res and  *)
(* by the state the call had reached when it was raised.                   *)
(***************************************************************************)
EXTENDS Integers, Sequences, FiniteSets, TLC

VARIABLES
    deck,             \* Deck.__cards (the attribute _Deck__cards draw() reads)
    deck_Deck_cards,  \* the attribute _Deck__Deck_cards that pass_cards sets
    drawn,            \* SpecDeck: the cards Deck.draw() has returned from this deck
    purse,            \* Player.__purse
    split_count,      \* Player.__split_count
    hands,            \* Player.__hands; SpecScore: the one hand under test;
                      \* SpecDealer: Dealer.__hand, <<>> for None
    last              \* the last call: the exception it raised and what it returned

vars == <<deck, deck_Deck_cards, drawn, purse, split_count, hands, last>>

\* ------------------------------------------------------------------ bounds

\* Spec: the longest deck a behaviour starts with.
MaxDeck == 2
\* Spec: split is not called once the player holds this many hands.
MaxHands == 2
\* Spec: split and double_down are not called once the purse is this many
\* minimum bets below zero.
MaxDebt == 1
\* SpecRound: the longest deck a behaviour starts with.
MaxRoundDeck == 6
\* SpecDeck: the most packs a deck is built from, and the longest staged list.
MaxPacks == 1
MaxStaged == 3
\* SpecScore: the most cards added to the hand under test.
MaxScoreCards == 4

\* ------------------------------------------------------- settings (config)

\* settings.py is not part of the sources: the values are those of one
\* configuration (the engine consumes them as opaque constants).
MAX_SPLITS == 2
MINIMUM_BET == 100
MAX_DECK_PACKS == 2

\* Spec: split is not called once split_count has passed MAX_SPLITS.
MaxSplitCount == MAX_SPLITS + 1

\* ------------------------------------------------------------------- Card

\* Card.SUITS: the source's suit symbols (spade, diamond, heart, club) are
\* written S, D, H, C.
SUITS == <<"S", "D", "H", "C">>
RANKS == <<"A", "2", "3", "4", "5", "6", "7", "8", "9", "10", "J", "Q", "K">>

\* Card(rank, suit); the constructor rejects any other rank or suit.
Card(rank, suit) == [rank |-> rank, suit |-> suit]

\* None, for Hand.__bet before set_bet (every bet set_bet stores is an int).
None == -1

\* The outcome of a call: res is "ok" or the exception raised, ret the value
\* returned, <<v>> for a value v and <<>> for None.
Call(res, ret) == [res |-> res, ret |-> ret]

\* ------------------------------------------------------------------- Deck

\* A slip: the loops exchanged, ranks outer and suits inner.
PackRanksOuter ==
    [k \in 1..52 |-> Card(RANKS[((k - 1) \div 4) + 1], SUITS[((k - 1) % 4) + 1])]

\* One pack in the order Deck.__init__ appends it: suits outer, ranks inner.
Pack == [k \in 1..52 |-> Card(RANKS[((k - 1) % 13) + 1], SUITS[((k - 1) \div 13) + 1])]

\* Deck(number_of_decks).__cards for 0 <= number_of_decks <= MAX_DECK_PACKS.
DeckNew(n) == [k \in 1..(52 * n) |-> Pack[((k - 1) % 52) + 1]]

\* The last k elements of a sequence.
LastK(s, k) == SubSeq(s, Len(s) - k + 1, Len(s))

\* ------------------------------------------------------------------- Hand

\* Hand(cards): no bet, active.
Hand(cards) == [cards |-> cards, bet |-> None, is_active |-> TRUE]

\* A slip: the card is inserted at the front of the list.
add_card_at_front(hd, card) == [hd EXCEPT !.cards = <<card>> \o @]

\* Hand.add_card
add_card(hd, card) == [hd EXCEPT !.cards = Append(@, card)]

deactivate(hd) == [hd EXCEPT !.is_active = FALSE]

\* int(rank) for the ranks that are numerals.
IntOf(rank) ==
    CASE rank = "2" -> 2 [] rank = "3" -> 3 [] rank = "4" -> 4 [] rank = "5" -> 5
      [] rank = "6" -> 6 [] rank = "7" -> 7 [] rank = "8" -> 8 [] rank = "9" -> 9
      [] rank = "10" -> 10

\* sum of a sequence of integers
RECURSIVE SumSeq(_)
SumSeq(s) == IF s = <<>> THEN 0 ELSE Head(s) + SumSeq(Tail(s))

\* A slip in the loop condition: >= 21 for > 21.
RECURSIVE AcesLoopOffByOne(_, _, _)
AcesLoopOffByOne(score, aces_quantity, eleven_counter) ==
    LET aces_score == 11 * eleven_counter + (aces_quantity - eleven_counter)
    IN  IF aces_score + score >= 21 /\ eleven_counter > 0
        THEN AcesLoopOffByOne(score, aces_quantity, eleven_counter - 1)
        ELSE aces_score + score

\* The while loop of get_score: aces_score is [11]*eleven_counter +
\* [1]*(aces_quantity - eleven_counter), except before the first iteration,
\* where it is [11]*eleven_counter with eleven_counter = aces_quantity.
RECURSIVE AcesLoop(_, _, _)
AcesLoop(score, aces_quantity, eleven_counter) ==
    LET aces_score == 11 * eleven_counter + (aces_quantity - eleven_counter)
    IN  IF aces_score + score > 21 /\ eleven_counter > 0
        THEN AcesLoop(score, aces_quantity, eleven_counter - 1)
        ELSE aces_score + score

\* Hand.get_score
get_score(hd) ==
    IF Len(hd.cards) = 0 THEN 0
    ELSE LET ranks == [i \in 1..Len(hd.cards) |->
                          IF hd.cards[i].rank \in {"J", "Q", "K"} THEN "10"
                          ELSE hd.cards[i].rank]
             aces_quantity == Cardinality({i \in 1..Len(ranks) : ranks[i] = "A"})
             \* the aces are left out of number_ranks: they add 0 to its sum
             number_ranks == [i \in 1..Len(ranks) |->
                                 IF ranks[i] = "A" THEN 0 ELSE IntOf(ranks[i])]
             score == SumSeq(number_ranks)
         IN  IF aces_quantity = 0 THEN score
             ELSE AcesLoop(score, aces_quantity, aces_quantity)

is_bust(hd) == get_score(hd) > 21

\* Hand.has_pair: its first statement calls self.number_of_cards(), a method
\* Hand does not have, so every call raises AttributeError.
has_pair(hd) == Call("AttributeError", <<>>)

\* A slip: *= 3 for *= 2.
double_bet_triple(hd) == [hd EXCEPT !.bet = @ * 3]

\* A slip: += 2 for *= 2.
double_bet_plus_two(hd) == [hd EXCEPT !.bet = @ + 2]

\* Hand.double_bet (on a hand whose bet is set)
double_bet(hd) == [hd EXCEPT !.bet = @ * 2]

\* ----------------------------------------------------------------- Player

\* A slip: the last active hand, not the first.
get_hand_last_active ==
    IF \E i \in 1..Len(hands) : hands[i].is_active
    THEN CHOOSE i \in 1..Len(hands) :
             hands[i].is_active /\ \A j \in (i + 1)..Len(hands) : ~hands[j].is_active
    ELSE 0

\* Player.get_hand: the index of the first active hand, 0 for None.
get_hand ==
    IF \E i \in 1..Len(hands) : hands[i].is_active
    THEN CHOOSE i \in 1..Len(hands) :
             hands[i].is_active /\ \A j \in 1..(i - 1) : ~hands[j].is_active
    ELSE 0

\* The hand a method acts on: hand = None stands for get_hand().
Resolve(h) == IF h = 0 THEN get_hand ELSE h

\* Player.can_split on a hand object (the comparison of the purse with a bet
\* of None raises TypeError).
can_split(hd) ==
    IF hd.bet = None THEN Call("TypeError", <<>>)
    ELSE IF purse < hd.bet THEN Call("ok", <<FALSE>>)
    ELSE IF split_count >= MAX_SPLITS THEN Call("ok", <<FALSE>>)
    ELSE has_pair(hd)

\* Player.can_double_down on a hand object.
can_double_down(hd) ==
    IF hd.bet = None THEN Call("TypeError", <<>>)
    ELSE Call("ok", <<purse >= hd.bet /\ Len(hd.cards) = 2>>)

\* A slip: the card is read off the deck without being removed from it.
hit_hand_keeps_deck(d, hd) ==
    IF Len(d) = 0 THEN [ok |-> FALSE, deck |-> d, hand |-> hd]
    ELSE LET h1 == add_card(hd, Head(d))
         IN  [ok |-> TRUE, deck |-> d,
              hand |-> IF is_bust(h1) \/ Len(h1.cards) = 5 THEN deactivate(h1) ELSE h1]

\* A slip: the cutoff is at six cards.
hit_hand_six_cards(d, hd) ==
    IF Len(d) = 0 THEN [ok |-> FALSE, deck |-> d, hand |-> hd]
    ELSE LET h1 == add_card(hd, Head(d))
         IN  [ok |-> TRUE, deck |-> Tail(d),
              hand |-> IF is_bust(h1) \/ Len(h1.cards) = 6 THEN deactivate(h1) ELSE h1]

\* A slip: only a bust deactivates the hand, five cards do not.
hit_hand_bust_only(d, hd) ==
    IF Len(d) = 0 THEN [ok |-> FALSE, deck |-> d, hand |-> hd]
    ELSE LET h1 == add_card(hd, Head(d))
         IN  [ok |-> TRUE, deck |-> Tail(d),
              hand |-> IF is_bust(h1) THEN deactivate(h1) ELSE h1]

\* HasHands.hit on a hand object: the deck and the hand afterwards, and
\* whether deck.draw() returned a card (it raises on an empty deck, before
\* the hand is touched).
hit_hand(d, hd) ==
    IF Len(d) = 0 THEN [ok |-> FALSE, deck |-> d, hand |-> hd]
    ELSE LET h1 == add_card(hd, Head(d))
         IN  [ok |-> TRUE, deck |-> Tail(d),
              hand |-> IF is_bust(h1) \/ Len(h1.cards) = 5 THEN deactivate(h1) ELSE h1]

\* ------------------------------------------------------- Spec: the inputs

\* Card(rank, suit), abbreviated.
C(rank, suit) == Card(rank, suit)

\* The last cards of Deck(1) after shuffle(624) (CPython 3.11's Random).
ShuffledShoe ==
    <<C("J", "H"), C("6", "D"), C("A", "D"), C("3", "D"), C("3", "S"), C("K", "S")>>

\* The deck a behaviour starts with: what is left of that shoe once the cards
\* before its last MaxDeck have been drawn.
InitDecks == {LastK(ShuffledShoe, MaxDeck)}

\* The purse a Player is constructed with (Player.__init__ takes any int).
InitPurses == {2 * MINIMUM_BET}

\* The card lists hands are constructed from, Hand(cards = ...).
HandInputs ==
    { <<>>,
      <<C("8", "S"), C("8", "D")>>,
      <<C("2", "C"), C("3", "C"), C("4", "C"), C("2", "H")>> }

\* The amounts set_bet is called with.
BetInputs == {MINIMUM_BET - 1, MINIMUM_BET}

\* The hand argument of a call: 0 for hand = None (the current hand), i for
\* the hand get_all_hands()[i - 1].
HandArgs == 0..MaxHands

Init ==
    /\ deck \in InitDecks
    /\ deck_Deck_cards = <<>>
    /\ drawn = <<>>
    /\ purse \in InitPurses
    /\ split_count = 0
    /\ hands = <<>>
    /\ last = Call("ok", <<>>)

\* ------------------------------------------------------ Spec: the actions

\* player.give_hand(Hand(cards)): the hand a round deals to a player who
\* holds none (further hands come from split).
GiveHand(cards) ==
    /\ Len(hands) = 0
    /\ hands' = Append(hands, Hand(cards))
    /\ last' = Call("ok", <<>>)
    /\ UNCHANGED <<deck, deck_Deck_cards, drawn, purse, split_count>>

\* player.get_all_hands()[h - 1].set_bet(bet)
SetBet(h, bet) ==
    /\ h \in 1..Len(hands)
    /\ IF bet < MINIMUM_BET
       THEN /\ last' = Call("InvalidBet", <<>>)
            /\ UNCHANGED hands
       ELSE /\ hands' = [hands EXCEPT ![h].bet = bet]
            /\ last' = Call("ok", <<>>)
    /\ UNCHANGED <<deck, deck_Deck_cards, drawn, purse, split_count>>

\* player.hit(deck, hand): h = 0 is hand = None. The card is drawn before the
\* hand is used, so with no hand to act on the card is lost to the deck.
Hit(h) ==
    LET i == Resolve(h)
    IN  /\ h \in 0..Len(hands)
        /\ IF Len(deck) = 0
           THEN /\ last' = Call("EmptyDeck", <<>>)
                /\ UNCHANGED <<deck, hands>>
           ELSE IF i = 0
           THEN /\ deck' = Tail(deck)
                /\ last' = Call("AttributeError", <<>>)
                /\ UNCHANGED hands
           ELSE LET r == hit_hand(deck, hands[i])
                IN  /\ deck' = r.deck
                    /\ hands' = [hands EXCEPT ![i] = r.hand]
                    /\ last' = Call("ok", <<>>)
        /\ UNCHANGED <<deck_Deck_cards, drawn, purse, split_count>>

\* player.stick(hand)
Stick(h) ==
    LET i == Resolve(h)
    IN  /\ h \in 0..Len(hands)
        /\ IF i = 0
           THEN /\ last' = Call("AttributeError", <<>>)
                /\ UNCHANGED hands
           ELSE /\ hands' = [hands EXCEPT ![i] = deactivate(hands[i])]
                /\ last' = Call("ok", <<>>)
        /\ UNCHANGED <<deck, deck_Deck_cards, drawn, purse, split_count>>

\* player.split(deck, hand). Nothing is checked first; each exception leaves
\* the assignments made before it.
Split(h) ==
    LET i == Resolve(h)
    IN  /\ h \in 0..Len(hands)
        /\ Len(hands) < MaxHands
        /\ split_count < MaxSplitCount
        /\ purse > -(MaxDebt * MINIMUM_BET)
        /\ split_count' = split_count + 1
        /\ IF i = 0
           THEN \* hand.get_bet() on None
                /\ last' = Call("AttributeError", <<>>)
                /\ UNCHANGED <<purse, hands, deck>>
           ELSE IF hands[i].bet = None
           THEN \* self.__purse -= None
                /\ last' = Call("TypeError", <<>>)
                /\ UNCHANGED <<purse, hands, deck>>
           ELSE IF Len(hands[i].cards) = 0
           THEN \* pop from an empty list
                /\ purse' = purse - hands[i].bet
                /\ last' = Call("IndexError", <<>>)
                /\ UNCHANGED <<hands, deck>>
           ELSE LET hand == hands[i]
                    second_card == hand.cards[Len(hand.cards)]
                    popped == [hand EXCEPT !.cards = SubSeq(@, 1, Len(@) - 1)]
                    split_hand == [Hand(<<second_card>>) EXCEPT !.bet = hand.bet]
                    r1 == hit_hand(deck, popped)
                    r2 == hit_hand(r1.deck, split_hand)
                IN  /\ purse' = purse - hand.bet
                    /\ deck' = r2.deck
                    /\ IF ~r1.ok
                       THEN /\ hands' = [hands EXCEPT ![i] = popped]
                            /\ last' = Call("EmptyDeck", <<>>)
                       ELSE IF ~r2.ok
                       THEN /\ hands' = [hands EXCEPT ![i] = r1.hand]
                            /\ last' = Call("EmptyDeck", <<>>)
                       ELSE /\ hands' = Append([hands EXCEPT ![i] = r1.hand], r2.hand)
                            /\ last' = Call("ok", <<>>)
        /\ UNCHANGED <<deck_Deck_cards, drawn>>

\* player.double_down(deck, hand)
DoubleDown(h) ==
    LET i == Resolve(h)
    IN  /\ h \in 0..Len(hands)
        /\ purse > -(MaxDebt * MINIMUM_BET)
        /\ IF i = 0
           THEN /\ last' = Call("AttributeError", <<>>)
                /\ UNCHANGED <<purse, hands, deck>>
           ELSE IF hands[i].bet = None
           THEN /\ last' = Call("TypeError", <<>>)
                /\ UNCHANGED <<purse, hands, deck>>
           ELSE LET r == hit_hand(deck, hands[i])
                IN  /\ purse' = purse - hands[i].bet
                    /\ deck' = r.deck
                    /\ IF ~r.ok
                       THEN /\ last' = Call("EmptyDeck", <<>>)
                            /\ UNCHANGED hands
                       ELSE /\ hands' = [hands EXCEPT ![i] = deactivate(double_bet(r.hand))]
                            /\ last' = Call("ok", <<>>)
        /\ UNCHANGED <<deck_Deck_cards, drawn, split_count>>

\* A slip: the split count is not cleared.
Reset_keeps_split_count ==
    /\ hands' = <<>>
    /\ last' = Call("ok", <<>>)
    /\ UNCHANGED <<deck, deck_Deck_cards, drawn, purse, split_count>>

\* player.reset()
Reset ==
    /\ hands' = <<>>
    /\ split_count' = 0
    /\ last' = Call("ok", <<>>)
    /\ UNCHANGED <<deck, deck_Deck_cards, drawn, purse>>

\* Player.get_purse: the body is its docstring alone, so the call returns None.
get_purse == <<>>

\* player.get_purse()
GetPurse ==
    /\ last' = Call("ok", get_purse)
    /\ UNCHANGED <<deck, deck_Deck_cards, drawn, purse, split_count, hands>>

\* Player.get_action_choices on a hand object: an exception raised by
\* can_split or can_double_down ends the call.
get_action_choices(hd) ==
    LET s == can_split(hd)
        d == can_double_down(hd)
    IN  IF s.res # "ok" THEN s
        ELSE IF d.res # "ok" THEN d
        ELSE Call("ok", << <<"hit", "stick">>
                              \o (IF s.ret[1] THEN <<"split">> ELSE <<>>)
                              \o (IF d.ret[1] THEN <<"double-down">> ELSE <<>>) >>)

\* player.get_action_choices(hand)
GetActionChoices(h) ==
    LET i == Resolve(h)
    IN  /\ h \in 0..Len(hands)
        /\ IF i = 0
           THEN \* hand.get_bet() on None, in can_split
                last' = Call("AttributeError", <<>>)
           ELSE last' = get_action_choices(hands[i])
        /\ UNCHANGED <<deck, deck_Deck_cards, drawn, purse, split_count, hands>>

Next ==
    \/ GetPurse
    \/ \E h \in HandArgs : GetActionChoices(h)
    \/ \E cards \in HandInputs : GiveHand(cards)
    \/ \E h \in HandArgs, bet \in BetInputs : SetBet(h, bet)
    \/ \E h \in HandArgs : Hit(h)
    \/ \E h \in HandArgs : Stick(h)
    \/ \E h \in HandArgs : Split(h)
    \/ \E h \in HandArgs : DoubleDown(h)
    \/ Reset

Spec == Init /\ [][Next]_vars

\* -------------------------------------------------------------- SpecRound

\* The last cards of Deck(1) after shuffle(443) (CPython 3.11's Random).
RoundShoe ==
    <<C("9", "D"), C("5", "D"), C("3", "C"), C("2", "C"), C("2", "S"), C("9", "S"),
      C("10", "C")>>

\* A Player as in Spec, and what is left of that shoe once the cards before
\* its last MaxRoundDeck have been drawn.
InitRound ==
    /\ deck = LastK(RoundShoe, MaxRoundDeck)
    /\ deck_Deck_cards = <<>>
    /\ drawn = <<>>
    /\ purse \in InitPurses
    /\ split_count = 0
    /\ hands = <<>>
    /\ last = Call("ok", <<>>)

\* The hands given are empty, Hand(), and every call leaves hand = None: it
\* acts on the current hand.
NextRound ==
    \/ GiveHand(<<>>)
    \/ \E h \in HandArgs, bet \in BetInputs : SetBet(h, bet)
    \/ Hit(0)
    \/ Stick(0)
    \/ Split(0)
    \/ DoubleDown(0)
    \/ Reset

SpecRound == InitRound /\ [][NextRound]_vars

\* ------------------------------------------------------------- SpecDealer

\* In SpecDealer last also names the method called.
DealerCall(op, call) == [op |-> op, res |-> call.res, ret |-> call.ret]

\* Hand.get_card_by_index
get_card_by_index(hd, index) ==
    IF index \notin {0, 1} THEN Call("InvalidIndex", <<>>)
    ELSE IF Len(hd.cards) <= index THEN Call("IndexError", <<>>)
    ELSE Call("ok", <<hd.cards[index + 1]>>)

\* A slip: the upcard is taken from index 0.
upcard_index_0 ==
    IF hands = <<>> THEN Call("AttributeError", <<>>)
    ELSE get_card_by_index(hands[1], 0)

\* Dealer.upcard (get_card_by_index on None raises AttributeError)
upcard ==
    IF hands = <<>> THEN Call("AttributeError", <<>>)
    ELSE get_card_by_index(hands[1], 1)

\* Dealer.hole_card
hole_card ==
    IF hands = <<>> THEN Call("AttributeError", <<>>)
    ELSE get_card_by_index(hands[1], 0)

\* Dealer.can_offer_insurance
can_offer_insurance ==
    IF upcard.res # "ok" THEN upcard
    ELSE Call("ok", <<upcard.ret[1].rank = "A">>)

\* The card lists the dealer's hands are constructed from.
DealerHandInputs ==
    { <<>>,
      <<C("K", "H"), C("A", "C")>>,
      <<C("A", "H"), C("9", "C")>> }

InitDealer ==
    /\ deck \in InitDecks
    /\ deck_Deck_cards = <<>>
    /\ drawn = <<>>
    /\ purse = 0
    /\ split_count = 0
    /\ hands = <<>>
    /\ last = DealerCall("Dealer", Call("ok", <<>>))

\* dealer.give_hand(Hand(cards))
DealerGiveHand(cards) ==
    /\ hands' = <<Hand(cards)>>
    /\ last' = DealerCall("give_hand", Call("ok", <<>>))
    /\ UNCHANGED <<deck, deck_Deck_cards, drawn, purse, split_count>>

\* dealer.get_hand(): the hand, <<>> for None
DealerGetHand ==
    /\ last' = DealerCall("get_hand", Call("ok", hands))
    /\ UNCHANGED <<deck, deck_Deck_cards, drawn, purse, split_count, hands>>

\* dealer.hit(deck): with no hand the card is drawn and then lost.
DealerHit ==
    /\ IF Len(deck) = 0
       THEN /\ last' = DealerCall("hit", Call("EmptyDeck", <<>>))
            /\ UNCHANGED <<deck, hands>>
       ELSE IF hands = <<>>
       THEN /\ deck' = Tail(deck)
            /\ last' = DealerCall("hit", Call("AttributeError", <<>>))
            /\ UNCHANGED hands
       ELSE LET r == hit_hand(deck, hands[1])
            IN  /\ deck' = r.deck
                /\ hands' = <<r.hand>>
                /\ last' = DealerCall("hit", Call("ok", <<>>))
    /\ UNCHANGED <<deck_Deck_cards, drawn, purse, split_count>>

\* dealer.stick()
DealerStick ==
    /\ IF hands = <<>>
       THEN /\ last' = DealerCall("stick", Call("AttributeError", <<>>))
            /\ UNCHANGED hands
       ELSE /\ hands' = <<deactivate(hands[1])>>
            /\ last' = DealerCall("stick", Call("ok", <<>>))
    /\ UNCHANGED <<deck, deck_Deck_cards, drawn, purse, split_count>>

\* dealer.reset()
DealerReset ==
    /\ hands' = <<>>
    /\ last' = DealerCall("reset", Call("ok", <<>>))
    /\ UNCHANGED <<deck, deck_Deck_cards, drawn, purse, split_count>>

\* dealer.upcard()
Upcard ==
    /\ last' = DealerCall("upcard", upcard)
    /\ UNCHANGED <<deck, deck_Deck_cards, drawn, purse, split_count, hands>>

\* dealer.hole_card()
HoleCard ==
    /\ last' = DealerCall("hole_card", hole_card)
    /\ UNCHANGED <<deck, deck_Deck_cards, drawn, purse, split_count, hands>>

\* dealer.can_offer_insurance()
CanOfferInsurance ==
    /\ last' = DealerCall("can_offer_insurance", can_offer_insurance)
    /\ UNCHANGED <<deck, deck_Deck_cards, drawn, purse, split_count, hands>>

NextDealer ==
    \/ \E cards \in DealerHandInputs : DealerGiveHand(cards)
    \/ DealerGetHand
    \/ DealerHit
    \/ DealerStick
    \/ DealerReset
    \/ Upcard
    \/ HoleCard
    \/ CanOfferInsurance

SpecDealer == InitDealer /\ [][NextDealer]_vars

\* --------------------------------------------------------------- SpecDeck

\* Deck.pass_cards(cards) for a non-empty list: the deck it returns. Inside
\* class Deck the name deck.__Deck_cards is mangled to _Deck__Deck_cards, so
\* the list goes to a new attribute and __cards stays that of Deck(0).
pass_cards(cards) == [cards |-> DeckNew(0), Deck_cards |-> cards]

\* The cards staged decks are made of, and the lists passed to pass_cards.
StageCards == {C("8", "S"), C("K", "D")}
StagedLists == UNION {[1..n -> StageCards] : n \in 0..MaxStaged}

\* The pack counts Deck(n) is called with: the valid ones up to MaxPacks, and
\* one on either side of the valid range.
PackCounts == {-1} \cup (0..MaxPacks) \cup {MAX_DECK_PACKS + 1}

InitDeck ==
    /\ deck = DeckNew(0)
    /\ deck_Deck_cards = <<>>
    /\ drawn = <<>>
    /\ purse = 0
    /\ split_count = 0
    /\ hands = <<>>
    /\ last = Call("ok", <<>>)

\* deck = Deck(n)
DeckConstruct(n) ==
    /\ IF n < 0 \/ n > MAX_DECK_PACKS
       THEN /\ last' = Call("InvalidDeckSize", <<>>)
            /\ UNCHANGED <<deck, deck_Deck_cards, drawn>>
       ELSE /\ deck' = DeckNew(n)
            /\ deck_Deck_cards' = <<>>
            /\ drawn' = <<>>
            /\ last' = Call("ok", <<>>)
    /\ UNCHANGED <<purse, split_count, hands>>

\* deck = Deck.pass_cards(cards); both ValueErrors about an empty deck (here
\* "Deck cannot be empty.", in draw "Taking card from empty deck.") are
\* recorded as EmptyDeck.
PassCards(cards) ==
    /\ IF Len(cards) = 0
       THEN /\ last' = Call("EmptyDeck", <<>>)
            /\ UNCHANGED <<deck, deck_Deck_cards, drawn>>
       ELSE /\ deck' = pass_cards(cards).cards
            /\ deck_Deck_cards' = pass_cards(cards).Deck_cards
            /\ drawn' = <<>>
            /\ last' = Call("ok", <<>>)
    /\ UNCHANGED <<purse, split_count, hands>>

\* deck.draw()
Draw ==
    /\ IF Len(deck) = 0
       THEN /\ last' = Call("EmptyDeck", <<>>)
            /\ UNCHANGED <<deck, drawn>>
       ELSE /\ deck' = Tail(deck)
            /\ drawn' = Append(drawn, Head(deck))
            /\ last' = Call("ok", <<Head(deck)>>)
    /\ UNCHANGED <<deck_Deck_cards, purse, split_count, hands>>

NextDeck ==
    \/ Draw
    \/ \E n \in PackCounts : DeckConstruct(n)
    \/ \E cards \in StagedLists : PassCards(cards)

SpecDeck == InitDeck /\ [][NextDeck]_vars

\* -------------------------------------------------------------- SpecScore

\* The cards added to the hand under test: one of each rank.
ScoreCards == {C(RANKS[r], "S") : r \in 1..13}

InitScore ==
    /\ deck = <<>>
    /\ deck_Deck_cards = <<>>
    /\ drawn = <<>>
    /\ purse = 0
    /\ split_count = 0
    /\ hands = <<Hand(<<>>)>>
    /\ last = Call("ok", <<>>)

\* hand.add_card(card)
AddCard(card) ==
    /\ Len(hands[1].cards) < MaxScoreCards
    /\ hands' = <<add_card(hands[1], card)>>
    /\ last' = Call("ok", <<>>)
    /\ UNCHANGED <<deck, deck_Deck_cards, drawn, purse, split_count>>

\* hand.get_score()
GetScore ==
    /\ last' = Call("ok", <<get_score(hands[1])>>)
    /\ UNCHANGED <<deck, deck_Deck_cards, drawn, purse, split_count, hands>>

NextScore ==
    \/ \E card \in ScoreCards : AddCard(card)
    \/ GetScore

SpecScore == InitScore /\ [][NextScore]_vars

\* ------------------------------------------------------------- the claims

\* The hands a call can name: those the player holds (hand = None names the
\* first active one of them).
Held == 1..Len(hands)

\* The cards of every hand, in list order.
CardsOf(hs) == [i \in 1..Len(hs) |-> hs[i].cards]

\* The eligibility for a split as the specification states it: the purse
\* covers the bet, fewer than MAX_SPLITS splits were made, and the hand is two
\* cards of one rank. (Player.can_split never returns True: wherever the first
\* two conditions hold it calls has_pair, which raises.)
CanSplitStated(hd) ==
    /\ hd.bet # None
    /\ purse >= hd.bet
    /\ split_count < MAX_SPLITS
    /\ Len(hd.cards) = 2
    /\ hd.cards[1].rank = hd.cards[2].rank

\* can_double_down(hand) returns True.
CanDoubleDown(hd) == can_double_down(hd) = Call("ok", <<TRUE>>)

\* C1: starting from a non-negative purse, no sequence of Player operations on
\* hands with a bet set makes the purse negative.
C1_PurseNeverNegative == purse >= 0

\* C2: split on a hand (with a bet set) for which can_split is false fails
\* with CannotSplit and leaves the purse, split_count, the hand list, the
\* hands' cards and the deck unchanged.
C2_SplitRejectedUnlessCanSplit ==
    [][\A h \in Held :
          (Split(h) /\ hands[h].bet # None /\ ~CanSplitStated(hands[h]))
              => (last'.res = "CannotSplit"
                  /\ UNCHANGED <<purse, split_count, hands, deck>>)]_vars

\* C3: in every reachable state split_count is within 0..MAX_SPLITS. (The
\* claim adds that no operation decreases it: reset sets it to 0.)
C3_SplitCountWithinMaxSplits == split_count \in 0..MAX_SPLITS

\* C4: double_down on a hand (with a bet set) that does not hold exactly 2
\* cards, or whose bet exceeds the purse, fails with CannotDoubleDown and
\* leaves the purse, the hand and the deck unchanged.
C4_DoubleDownRejectedUnlessEligible ==
    [][\A h \in Held :
          (DoubleDown(h) /\ hands[h].bet # None /\ ~CanDoubleDown(hands[h]))
              => (last'.res = "CannotDoubleDown"
                  /\ UNCHANGED <<purse, hands, deck>>)]_vars

\* C5: a split or double_down that fails because the deck runs out leaves the
\* purse, split_count, the hand list and the cards of every hand as they were.
C5_AtomicOnEmptyDeck ==
    [][\A h \in Held :
          ((Split(h) \/ DoubleDown(h)) /\ last'.res = "EmptyDeck")
              => (/\ purse' = purse
                  /\ split_count' = split_count
                  /\ CardsOf(hands') = CardsOf(hands))]_vars

\* What a successful split of hand h does, but for the active flag of the
\* hand that was split.
SplitEffects(h) ==
    LET n == Len(hands)
    IN  /\ last'.res = "ok"
        /\ split_count' = split_count + 1
        /\ purse' = purse - hands[h].bet
        /\ deck' = Tail(Tail(deck))
        /\ Len(hands') = n + 1
        /\ \A i \in Held \ {h} : hands'[i] = hands[i]
        /\ hands'[h].cards = <<hands[h].cards[1], deck[1]>>
        /\ hands'[h].bet = hands[h].bet
        /\ hands'[n + 1].cards = <<hands[h].cards[2], deck[2]>>
        /\ hands'[n + 1].bet = hands[h].bet
        /\ hands'[n + 1].is_active

\* C6 as stated: when the hand is eligible for a split and the deck has at least 2 cards,
\* split adds 1 to split_count, debits the purse by the hand's bet, leaves the
\* hand with its first card and the deck's next card, appends a new hand with
\* the second card, the card after that and the same bet at the end of the
\* hand list, and both hands end with 2 cards and active.
C6_SplitBothActive ==
    [][\A h \in Held :
          (Split(h) /\ CanSplitStated(hands[h]) /\ Len(deck) >= 2)
              => (SplitEffects(h) /\ hands'[h].is_active)]_vars

\* C6 as amended: the same, but the hand that was split keeps its active flag
\* (it ends active when it was active, as the current hand is), and the new
\* hand is active.
C6_Split ==
    [][\A h \in Held :
          (Split(h) /\ CanSplitStated(hands[h]) /\ Len(deck) >= 2)
              => (SplitEffects(h) /\ hands'[h].is_active = hands[h].is_active)]_vars

\* A split of a pair has succeeded: two hands of 2 cards that share their
\* first card's rank, the same bet on both, the purse one bet down.
C6_Witness ==
    /\ last.res = "ok"
    /\ split_count = 1
    /\ Len(hands) = 2
    /\ \A i \in Held : Len(hands[i].cards) = 2 /\ hands[i].bet = MINIMUM_BET
    /\ hands[1].cards[1].rank = hands[2].cards[1].rank
    /\ hands[2].is_active
    /\ purse = MINIMUM_BET
    /\ deck = <<>>

\* C7: when can_double_down(hand) holds and the deck is not empty, double_down
\* debits the purse by the hand's bet, moves one card from the deck to the
\* hand (3 cards), doubles the bet and leaves the hand inactive, bust or not.
C7_DoubleDown ==
    [][\A h \in Held :
          (DoubleDown(h) /\ CanDoubleDown(hands[h]) /\ Len(deck) >= 1)
              => (/\ last'.res = "ok"
                  /\ purse' = purse - hands[h].bet
                  /\ deck' = Tail(deck)
                  /\ split_count' = split_count
                  /\ Len(hands') = Len(hands)
                  /\ \A i \in Held \ {h} : hands'[i] = hands[i]
                  /\ hands'[h].cards = Append(hands[h].cards, deck[1])
                  /\ Len(hands'[h].cards) = 3
                  /\ hands'[h].bet = 2 * hands[h].bet
                  /\ ~hands'[h].is_active)]_vars

\* A double-down has succeeded on a hand that is not bust: 3 cards, the bet
\* doubled (set_bet is only called with the minimum bet), inactive.
C7_Witness ==
    /\ last.res = "ok"
    /\ purse = MINIMUM_BET
    /\ \E i \in Held :
          /\ Len(hands[i].cards) = 3
          /\ hands[i].bet = 2 * MINIMUM_BET
          /\ ~hands[i].is_active
          /\ ~is_bust(hands[i])

\* The value the claim gives a rank that is not an ace: 10 for J, Q and K, the
\* number on the card otherwise (RANKS[k] is the numeral of k for k in 2..10).
StatedValue(rank) ==
    IF rank \in {"J", "Q", "K"} THEN 10 ELSE CHOOSE k \in 2..10 : RANKS[k] = rank

RECURSIVE NonAceTotal(_)
NonAceTotal(cards) ==
    IF cards = <<>> THEN 0
    ELSE (IF Head(cards).rank = "A" THEN 0 ELSE StatedValue(Head(cards).rank))
         + NonAceTotal(Tail(cards))

\* The totals of a hand over every way of counting k of its aces as 11 and
\* the others as 1.
Totals(cards) ==
    LET aces == Cardinality({i \in 1..Len(cards) : cards[i].rank = "A"})
    IN  {NonAceTotal(cards) + 11 * k + (aces - k) : k \in 0..aces}

Max(S) == CHOOSE x \in S : \A y \in S : y <= x
Min(S) == CHOOSE x \in S : \A y \in S : x <= y

\* The score the claim states: the greatest total that is at most 21, or the
\* total with every ace at 1 if there is none; 0 for the empty hand.
StatedScore(cards) ==
    LET atMost21 == {t \in Totals(cards) : t <= 21}
    IN  IF atMost21 # {} THEN Max(atMost21) ELSE Min(Totals(cards))

\* C8: get_score returns the greatest total not above 21 over the values 1 and
\* 11 of each ace (J, Q, K counting 10), the all-aces-at-1 total if every
\* total is above 21, and 0 for the empty hand.
C8_ScoreIsBestTotal ==
    last.ret # <<>> => last.ret = <<StatedScore(hands[1].cards)>>

\* get_score has returned 21 for a hand of three cards, two of them aces.
C8_Witness ==
    /\ last.ret = <<21>>
    /\ Len(hands[1].cards) = 3
    /\ Cardinality({i \in 1..3 : hands[1].cards[i].rank = "A"}) = 2

\* C9: a deck built by pass_cards from a non-empty list returns, draw after
\* draw, the cards of the list in order, and only the draw after the last of
\* them fails with EmptyDeck; pass_cards of an empty list fails with EmptyDeck.
C9_PassCardsThenDraw ==
    [][/\ \A cards \in StagedLists :
             PassCards(cards) =>
                 last'.res = (IF cards = <<>> THEN "EmptyDeck" ELSE "ok")
       /\ (Draw /\ deck_Deck_cards # <<>>) =>
             IF drawn = deck_Deck_cards
             THEN last' = Call("EmptyDeck", <<>>)
             ELSE last' = Call("ok", <<deck_Deck_cards[Len(drawn) + 1]>>)]_vars

\* C10: get_purse returns the player's current purse.
C10_GetPurseReturnsPurse == [][GetPurse => last'.ret = <<purse>>]_vars

\* C11: hit(deck, hand) removes the card at position 0 of the deck and appends
\* it to the hand; afterwards the hand is inactive if it is bust or holds
\* exactly 5 cards, and otherwise keeps its active flag; on an empty deck hit
\* fails with EmptyDeck and the hand is unchanged.
C11_Hit ==
    [][\A h \in 0..Len(hands) :
          (Hit(h) /\ Resolve(h) # 0) =>
              LET i == Resolve(h)
              IN  IF deck = <<>>
                  THEN last'.res = "EmptyDeck" /\ hands' = hands /\ deck' = deck
                  ELSE /\ last'.res = "ok"
                       /\ deck' = Tail(deck)
                       /\ Len(hands') = Len(hands)
                       /\ \A j \in Held \ {i} : hands'[j] = hands[j]
                       /\ hands'[i].cards = Append(hands[i].cards, deck[1])
                       /\ hands'[i].bet = hands[i].bet
                       /\ hands'[i].is_active =
                              IF StatedScore(hands'[i].cards) > 21
                                     \/ Len(hands'[i].cards) = 5
                              THEN FALSE
                              ELSE hands[i].is_active]_vars

\* A hit has brought a hand to 5 cards with a score of at most 21, and the
\* hand is inactive.
C11_Witness ==
    /\ last.res = "ok"
    /\ \E i \in Held :
          /\ Len(hands[i].cards) = 5
          /\ hands[i].cards[5] \in {ShuffledShoe[k] : k \in 1..Len(ShuffledShoe)}
          /\ get_score(hands[i]) <= 21
          /\ ~hands[i].is_active

\* C12: once a hand's bet is set, no operation on the hand makes it smaller
\* (it changes only by being doubled).
C12_BetNeverDecreases ==
    [][\A i \in Held :
          (i <= Len(hands') /\ hands[i].bet # None)
              => hands'[i].bet >= hands[i].bet]_vars

\* The 13 cards of a suit in the stated rank order A, 2..10, J, Q, K.
StatedSuit(suit) ==
    <<Card("A", suit), Card("2", suit), Card("3", suit), Card("4", suit),
      Card("5", suit), Card("6", suit), Card("7", suit), Card("8", suit),
      Card("9", suit), Card("10", suit), Card("J", suit), Card("Q", suit),
      Card("K", suit)>>

\* A pack in the stated suit order: spades, diamonds, hearts, clubs.
StatedPack == StatedSuit("S") \o StatedSuit("D") \o StatedSuit("H") \o StatedSuit("C")

\* n packs, one after the other.
RECURSIVE StatedDeck(_)
StatedDeck(n) == IF n = 0 THEN <<>> ELSE StatedPack \o StatedDeck(n - 1)

StatedChoices(hd) ==
    <<"hit", "stick">>
        \o (IF CanSplitStated(hd) THEN <<"split">> ELSE <<>>)
        \o (IF purse >= hd.bet /\ Len(hd.cards) = 2 THEN <<"double-down">> ELSE <<>>)

\* C14: for a hand with a bet set, get_action_choices returns hit, stand, then
\* split if and only if can_split holds (purse >= bet, split_count <
\* MAX_SPLITS, two cards of one rank), then double-down if and only if
\* can_double_down holds (purse >= bet, exactly 2 cards).
C14_ActionChoices ==
    [][\A h \in Held :
          (GetActionChoices(h) /\ hands[h].bet # None)
              => last' = Call("ok", <<StatedChoices(hands[h])>>)]_vars

\* C15: reset empties the hand list and sets split_count to 0, leaves the
\* purse (and the deck) as it is, whatever the state it is called in, and
\* afterwards the player has no current hand.
C15_Reset ==
    [][Reset => (/\ last'.res = "ok"
                 /\ hands' = <<>>
                 /\ split_count' = 0
                 /\ purse' = purse
                 /\ deck' = deck
                 /\ get_hand' = 0)]_vars

\* A reset has followed a split or a double-down: no hands, no splits counted,
\* and the purse still short of the wager taken.
C15_Witness ==
    /\ hands = <<>>
    /\ split_count = 0
    /\ purse < 2 * MINIMUM_BET
    /\ last = Call("ok", <<>>)

\* The current hand as the claim states it: the first hand of the list whose
\* active flag is true, 0 (none) when no hand is active.
StatedCurrent(hs) ==
    LET active == {i \in 1..Len(hs) : hs[i].is_active}
    IN  IF active = {} THEN 0 ELSE Min(active)

\* C16: get_hand returns the first hand of the list whose active flag is true,
\* and None exactly when no hand is active; when the current hand is
\* deactivated, the next current hand is the next active hand of the list.
C16_CurrentHand ==
    /\ [](/\ get_hand = StatedCurrent(hands)
          /\ (get_hand = 0) = (\A i \in Held : ~hands[i].is_active))
    /\ [][\A i \in Held :
             (get_hand = i /\ Len(hands') >= Len(hands) /\ ~hands'[i].is_active)
                 => LET later == {j \in (i + 1)..Len(hands') : hands'[j].is_active}
                    IN  get_hand' = IF later = {} THEN 0 ELSE Min(later)]_vars

\* The first hand was deactivated and the hand split off it is the current one.
C16_Witness ==
    /\ Len(hands) = 2
    /\ ~hands[1].is_active
    /\ hands[2].is_active
    /\ get_hand = 2

\* How often a card occurs in a deck and a list of hands together.
RECURSIVE CountIn(_, _)
CountIn(card, cards) ==
    IF cards = <<>> THEN 0
    ELSE (IF Head(cards) = card THEN 1 ELSE 0) + CountIn(card, Tail(cards))

RECURSIVE Flatten(_)
Flatten(hs) == IF hs = <<>> THEN <<>> ELSE Head(hs).cards \o Flatten(Tail(hs))

AllCards(d, hs) == d \o Flatten(hs)

\* C19: a hit, stand, split or double-down that completes leaves the multiset
\* of the cards of the deck and of the player's hands as it was, and takes
\* the cards it moves from the front of the deck.
C19_CardsConserved ==
    [][\A h \in 0..Len(hands) :
          ((Hit(h) \/ Stick(h) \/ Split(h) \/ DoubleDown(h)) /\ last'.res = "ok")
              => (/\ \A k \in 1..Len(AllCards(deck, hands)) :
                        LET card == AllCards(deck, hands)[k]
                        IN  CountIn(card, AllCards(deck', hands'))
                                = CountIn(card, AllCards(deck, hands))
                  /\ Len(AllCards(deck', hands')) = Len(AllCards(deck, hands))
                  /\ \E n \in 0..2 : Len(deck) >= n /\ deck' = SubSeq(deck, n + 1, Len(deck)))]_vars

\* A split has completed: the two cards of the pair and the two cards of the
\* deck are in the two hands.
C19_Witness ==
    /\ last.res = "ok"
    /\ deck = <<>>
    /\ Len(hands) = 2
    /\ Len(Flatten(hands)) = 4
    /\ \A k \in 1..2 : CountIn(LastK(ShuffledShoe, 2)[k], Flatten(hands)) = 1
    /\ CountIn(C("8", "S"), Flatten(hands)) = 1
    /\ CountIn(C("8", "D"), Flatten(hands)) = 1

\* The purse and the bets of the hands, together.
RECURSIVE Bets(_)
Bets(hs) == IF hs = <<>> THEN 0 ELSE Head(hs).bet + Bets(Tail(hs))

Money(p, hs) == p + Bets(hs)

\* C20: for a player whose hands all have a bet set, the purse and the bets of
\* the hands add up to the same after a split or double-down that completes
\* as before it, and hit and stand leave the sum as it is.
C20_MoneyConserved ==
    [][\A h \in 0..Len(hands) :
          (/\ \A i \in Held : hands[i].bet # None
           /\ \/ (Split(h) \/ DoubleDown(h)) /\ last'.res = "ok"
              \/ Hit(h)
              \/ Stick(h))
              => Money(purse', hands') = Money(purse, hands)]_vars

\* A split has completed on a player whose hands all have a bet set: the
\* purse is one wager down and that wager is on the new hand.
C20_Witness ==
    /\ last.res = "ok"
    /\ split_count = 1
    /\ purse = MINIMUM_BET
    /\ Len(hands) = 2
    /\ \A i \in Held : hands[i].bet # None
    /\ Bets(hands) = 2 * MINIMUM_BET
    /\ Money(purse, hands) = 3 * MINIMUM_BET

\* C17: when hands start empty and get their cards only by hit, split and
\* double_down on the current hand, every active hand holds at most 4 cards
\* and scores at most 21, and no hand holds more than 5 cards.
C17_HandSize ==
    \A i \in Held :
        /\ Len(hands[i].cards) <= 5
        /\ hands[i].is_active =>
               (Len(hands[i].cards) <= 4 /\ StatedScore(hands[i].cards) <= 21)

\* Hits have brought a hand to 5 cards without a bust, and it is inactive.
C17_Witness ==
    \E i \in Held :
        /\ hands[i].cards = SubSeq(LastK(RoundShoe, MaxRoundDeck), 1, 5)
        /\ StatedScore(hands[i].cards) <= 21
        /\ ~hands[i].is_active

\* C18: a Dealer holds at most one hand: give_hand on a Dealer that has a
\* hand replaces it without error, get_hand returns the hand given last,
\* active or not, reset leaves the Dealer with no hand, and
\* can_offer_insurance is true exactly when the hand's card at index 1 is an
\* ace.
C18_Dealer ==
    /\ [](Len(hands) <= 1)
    /\ [][/\ \A cards \in DealerHandInputs :
                (last'.op = "give_hand" /\ DealerGiveHand(cards)) =>
                    (last'.res = "ok" /\ hands' = <<Hand(cards)>>)
          /\ last'.op \notin {"give_hand", "reset"}
                => (/\ Len(hands') = Len(hands)
                    /\ hands # <<>> =>
                          \E k \in 0..1 :
                              /\ Len(hands'[1].cards) = Len(hands[1].cards) + k
                              /\ SubSeq(hands'[1].cards, 1, Len(hands[1].cards))
                                     = hands[1].cards)
          /\ (last'.op = "get_hand" /\ DealerGetHand)
                => (last'.res = "ok" /\ last'.ret = hands)
          /\ (last'.op = "reset" /\ DealerReset)
                => (last'.res = "ok" /\ hands' = <<>>)
          /\ (last'.op = "can_offer_insurance" /\ CanOfferInsurance) =>
                /\ (hands # <<>> /\ Len(hands[1].cards) >= 2)
                       => last'.ret = <<hands[1].cards[2].rank = "A">>
                /\ (hands = <<>> \/ Len(hands[1].cards) < 2)
                       => last'.res # "ok"]_vars

\* can_offer_insurance has returned True for a hand that was stood on and
\* whose card at index 1 is an ace.
C18_Witness ==
    /\ last.op = "can_offer_insurance"
    /\ last.ret = <<TRUE>>
    /\ Len(hands) = 1
    /\ hands[1].cards[2].rank = "A"
    /\ hands[1].cards[1].rank # "A"
    /\ ~hands[1].is_active

====
